---------------------------- MODULE Spec2Model ----------------------------
(***************************************************************************)
(* A model of the subway graph engine: the station-complex resolver        *)
(* (complexes.py), the directed all-pairs-forward graph (mta_graph.py,     *)
(* class SubwayGraph) and the undirected adjacency graph                   *)
(* (mta_complex_graph.py, class MTAComplexGraph).                          *)
(*                                                                         *)
(* Python strings that the code indexes (stop ids, complex ids) are        *)
(* sequences of one-character strings: "A34N"[-1] is Last, [:-1] is Front. *)
(* A Python result is a record: [k |-> "None"], [k |-> "val", v |-> x] or  *)
(* [k |-> "raise", exc |-> name].                                          *)
(***************************************************************************)
EXTENDS Integers, Sequences, FiniteSets, TLC

VARIABLES
    cls,        \* which class this process uses: "SubwayGraph" or "MTAComplexGraph"
    files,      \* the source files on disk: Complexes.csv, stops.txt, trips.txt, stop_times.txt
    G,          \* cls.G: None or the published graph
    complexes,  \* cls._complexes: None or the ComplexesData instance
    trips,      \* cls._trips: None or the trips table
    stop_times, \* cls._stop_times: None or the stop_times table
    history,    \* the graphs published by the first two build_graph calls, in order
    ret,        \* the last query call and what it returned or raised; idle when consumed
    builders,   \* per build_graph call in progress: its position, sources and local graph
    reader      \* the lines_at_gtfs_stop_id call in progress: its position and locals

vars == <<cls, files, G, complexes, trips, stop_times, history, ret, builders, reader>>

-----------------------------------------------------------------------------
(* Python values                                                           *)

None == [k |-> "None"]
Val(x) == [k |-> "val", v |-> x]
Raise(e) == [k |-> "raise", exc |-> e]

IsNone(r) == r.k = "None"
IsVal(r) == r.k = "val"
IsRaise(r) == r.k = "raise"

\* str[-1] and str[:-1] on a non-empty string, str + 'N'
Last(s) == s[Len(s)]
Front(s) == SubSeq(s, 1, Len(s) - 1)
HasSuffix(s) == Last(s) \in {"N", "S"}

\* Python truthiness of an Optional[str] / Optional[list]: None and empty are falsy
Truthy(r) == IsVal(r) /\ r.v # <<>>

\* dict.get(key): the value or None
DictGet(d, key) == IF key \in DOMAIN d THEN Val(d[key]) ELSE None

\* d[key] = value
DictSet(d, key, value) == [x \in (DOMAIN d) \cup {key} |-> IF x = key THEN value ELSE d[x]]

EmptyDict == [x \in {} |-> None]

RECURSIVE SeqToSet(_)
SeqToSet(s) == IF s = <<>> THEN {} ELSE {Head(s)} \cup SeqToSet(Tail(s))

InSeq(x, s) == \E i \in 1..Len(s) : s[i] = x

-----------------------------------------------------------------------------
(* complexes.py: ComplexesData                                             *)

\* row['GTFS Stop IDs'].split(';'), stripped, empty entries skipped
GtfsList(row) == SelectSeq(row.gtfs_stop_ids, LAMBDA g : g # <<>>)

\* a variant of StoreIds that stores the listed id only, not the id without its suffix
RECURSIVE StoreIdsExact(_, _, _)
StoreIdsExact(d, gtfs_list, complex_id) ==
    IF gtfs_list = <<>> THEN d
    ELSE StoreIdsExact(DictSet(d, Head(gtfs_list), complex_id), Tail(gtfs_list), complex_id)

\* the inner loop over gtfs_list: the id itself, and the id without its suffix
RECURSIVE StoreIds(_, _, _)
StoreIds(d, gtfs_list, complex_id) ==
    IF gtfs_list = <<>> THEN d
    ELSE LET gtfs == Head(gtfs_list)
             d1 == DictSet(d, gtfs, complex_id)
             d2 == IF HasSuffix(gtfs) THEN DictSet(d1, Front(gtfs), complex_id) ELSE d1
         IN  StoreIds(d2, Tail(gtfs_list), complex_id)

\* the loop over the rows of Complexes.csv, in file order
RECURSIVE LoadRows(_, _)
LoadRows(cd, rows) ==
    IF rows = <<>> THEN cd
    ELSE LET row == Head(rows)
             gtfs_list == GtfsList(row)
         IN  LoadRows(
                 [cd EXCEPT
                    !.complex_info = DictSet(@, row.complex_id,
                        [num_stations |-> row.num_stations, gtfs_stop_ids |-> gtfs_list]),
                    !.complex_id_by_gtfs = StoreIds(@, gtfs_list, row.complex_id)],
                 Tail(rows))

\* ComplexesData(): the two dictionaries and the stop-name map
ComplexesData(f) ==
    LoadRows([complex_id_by_gtfs |-> EmptyDict,
              complex_info |-> EmptyDict,
              stop_name_map |-> f.stops],
             f.registry)

\* get_complex_id_by_gtfs_stop_id
get_complex_id_by_gtfs_stop_id(cd, gtfs_stop_id) ==
    LET complex_id == DictGet(cd.complex_id_by_gtfs, gtfs_stop_id)
    IN  IF Truthy(complex_id) THEN complex_id
        ELSE IF gtfs_stop_id = <<>> THEN Raise("IndexError")
        ELSE IF HasSuffix(gtfs_stop_id)
             THEN DictGet(cd.complex_id_by_gtfs, Front(gtfs_stop_id))
        ELSE DictGet(cd.complex_id_by_gtfs, Append(gtfs_stop_id, "N"))

\* get_number_of_stations
get_number_of_stations(cd, complex_id) ==
    LET info == DictGet(cd.complex_info, complex_id)
    IN  IF IsVal(info) THEN Val(info.v.num_stations) ELSE None

\* get_gtfs_stop_ids_by_complex_id
get_gtfs_stop_ids_by_complex_id(cd, complex_id) ==
    LET info == DictGet(cd.complex_info, complex_id)
    IN  IF IsVal(info) THEN Val(info.v.gtfs_stop_ids) ELSE None

\* the names of the member stops that stops.txt knows, in registry order
RECURSIVE KnownNames(_, _)
KnownNames(cd, ids) ==
    IF ids = <<>> THEN <<>>
    ELSE LET name == DictGet(cd.stop_name_map, Head(ids))
         IN  (IF IsVal(name) /\ name.v # "" THEN <<name.v>> ELSE <<>>)
                 \o KnownNames(cd, Tail(ids))

\* get_names_of_stations
get_names_of_stations(cd, complex_id) ==
    LET gtfs_stop_ids == get_gtfs_stop_ids_by_complex_id(cd, complex_id)
    IN  IF ~Truthy(gtfs_stop_ids) THEN None
        ELSE Val(KnownNames(cd, gtfs_stop_ids.v))

\* get_station_name
get_station_name(cd, complex_id) ==
    LET names == get_names_of_stations(cd, complex_id)
    IN  IF Truthy(names) THEN names.v[1] ELSE "Unknown"

-----------------------------------------------------------------------------
(* Tables and sorting                                                      *)

\* Python compares one-character route ids by code point
CodePoint(c) == [x \in {"4", "A", "B"} |-> IF x = "4" THEN 52 ELSE IF x = "A" THEN 65 ELSE 66][c]

RECURSIVE InsertSorted(_, _)
InsertSorted(x, s) ==
    IF s = <<>> THEN <<x>>
    ELSE IF CodePoint(x) < CodePoint(Head(s)) THEN <<x>> \o s
    ELSE <<Head(s)>> \o InsertSorted(x, Tail(s))

\* sorted(lines)
RECURSIVE Sorted(_)
Sorted(s) == IF s = <<>> THEN <<>> ELSE InsertSorted(Head(s), Sorted(Tail(s)))

\* rows.sort_values("stop_sequence").stop_id.tolist(); positions are distinct within a trip
RECURSIVE SortedStopIds(_)
SortedStopIds(rows) ==
    IF rows = {} THEN <<>>
    ELSE LET first == CHOOSE r \in rows : \A q \in rows : r.stop_sequence <= q.stop_sequence
         IN  <<first.stop_id>> \o SortedStopIds(rows \ {first})

\* trips.query("route_id==@route and direction_id==@direction"), in file order
TripsQuery(t, route, direction) ==
    SelectSeq(t, LAMBDA r : r.route_id = route /\ r.direction_id = direction)

\* trips['route_id'].unique(): in order of first appearance
RECURSIVE Unique(_, _)
Unique(s, seen) ==
    IF s = <<>> THEN <<>>
    ELSE IF Head(s) \in seen THEN Unique(Tail(s), seen)
    ELSE <<Head(s)>> \o Unique(Tail(s), seen \cup {Head(s)})

RouteIds(t) == Unique([i \in 1..Len(t) |-> t[i].route_id], {})

\* the routes for which ordered_stops takes the trip with the most stops
OverrideRoutes == {"A", "4"}

-----------------------------------------------------------------------------
(* mta_graph.py: SubwayGraph.ordered_stops                                 *)

\* the max-stop-count branch: groupby("trip_id").size() has sorted keys, idxmax the first maximum
OrderedStopsMax(t, st, route, direction) ==
    LET q == TripsQuery(t, route, direction)
        trip_ids == {q[i].trip_id : i \in 1..Len(q)}
        rows == {r \in st : r.trip_id \in trip_ids}
        counted == {r.trip_id : r \in rows}
        size(id) == Cardinality({r \in rows : r.trip_id = id})
    IN  IF counted = {} THEN Val(<<>>)
        ELSE LET best_trip_id == CHOOSE id \in counted :
                         /\ \A o \in counted : size(o) <= size(id)
                         /\ \A o \in counted : size(o) = size(id) => id <= o
             IN  Val(SortedStopIds({r \in rows : r.trip_id = best_trip_id}))

\* the default branch: the first trip in file order; .iloc[0] raises on no trip
OrderedStopsFirst(t, st, route, direction) ==
    LET q == TripsQuery(t, route, direction)
    IN  IF q = <<>> THEN Raise("IndexError")
        ELSE Val(SortedStopIds({r \in st : r.trip_id = q[1].trip_id}))

\* SubwayGraph.ordered_stops(route, direction); t and st are cls._trips and cls._stop_times
SubwayOrderedStops(t, st, route, direction) ==
    IF IsNone(t) THEN Raise("AttributeError")
    ELSE IF route \in OverrideRoutes THEN OrderedStopsMax(t.v, st.v, route, direction)
    ELSE OrderedStopsFirst(t.v, st.v, route, direction)

-----------------------------------------------------------------------------
(* Resolving a stop list                                                   *)

\* for stop in stops: complex_id = resolve(stop); if complex_id: append.
\* A raise in the resolver leaves the loop.
RECURSIVE ResolveAll(_, _)
ResolveAll(cd, stops) ==
    IF stops = <<>> THEN Val(<<>>)
    ELSE LET complex_id == get_complex_id_by_gtfs_stop_id(cd, Head(stops))
             rest == ResolveAll(cd, Tail(stops))
         IN  IF IsRaise(complex_id) THEN complex_id
             ELSE IF IsRaise(rest) THEN rest
             ELSE IF Truthy(complex_id) THEN Val(<<complex_id.v>> \o rest.v)
             ELSE rest

\* ... and complex_id not in complex_ids: every repeat is dropped, adjacent or not
RECURSIVE DropRepeats(_, _)
DropRepeats(s, seen) ==
    IF s = <<>> THEN <<>>
    ELSE IF Head(s) \in seen THEN DropRepeats(Tail(s), seen)
    ELSE <<Head(s)>> \o DropRepeats(Tail(s), seen \cup {Head(s)})

-----------------------------------------------------------------------------
(* mta_complex_graph.py: MTAComplexGraph.ordered_stops                     *)

\* g is cls.G at the time of the call, t, st, cd the class-level caches
ComplexOrderedStops(g, t, st, cd, route, direction) ==
    IF IsNone(g) THEN Raise("RuntimeError")
    ELSE LET gtfs_stops == OrderedStopsFirst(t.v, st.v, route, direction)
         IN  IF IsRaise(gtfs_stops) THEN gtfs_stops
             ELSE LET ids == ResolveAll(cd.v, gtfs_stops.v)
                  IN  IF IsRaise(ids) THEN ids ELSE Val(DropRepeats(ids.v, {}))

-----------------------------------------------------------------------------
(* networkx graphs: nodes and adjacency in insertion order                 *)
(* An undirected graph holds each edge in both orientations, with one      *)
(* shared data dictionary.                                                 *)

EmptyGraph(directed) ==
    [directed |-> directed, nodes |-> <<>>, attrs |-> EmptyDict,
     edges |-> <<>>, lines |-> EmptyDict]

HasNode(g, n) == InSeq(n, g.nodes)
HasEdge(g, u, v) == <<u, v>> \in DOMAIN g.lines

\* a variant of AddNode that adds the node without looking its attributes up
AddNodeBare(g, cd, complex_id) ==
    [g EXCEPT
        !.nodes = Append(@, complex_id),
        !.attrs = DictSet(@, complex_id, [stop_name |-> "Unknown", gtfs_ids |-> None])]

\* G.add_node(complex_id, stop_name=..., gtfs_ids=...) for a node not in G
AddNode(g, cd, complex_id) ==
    [g EXCEPT
        !.nodes = Append(@, complex_id),
        !.attrs = DictSet(@, complex_id,
                    [stop_name |-> get_station_name(cd, complex_id),
                     gtfs_ids |-> get_gtfs_stop_ids_by_complex_id(cd, complex_id)])]

\* for complex_id in complex_ids: if complex_id not in G: G.add_node(...)
RECURSIVE AddNodes(_, _, _)
AddNodes(g, cd, complex_ids) ==
    IF complex_ids = <<>> THEN g
    ELSE AddNodes(IF HasNode(g, Head(complex_ids)) THEN g
                  ELSE AddNode(g, cd, Head(complex_ids)),
                  cd, Tail(complex_ids))

\* a variant of Orientations for a graph that stores every edge one way only
OrientationsOneWay(g, u, v) == <<<<u, v>>>>

\* the orientations under which the graph stores the edge (u, v)
Orientations(g, u, v) == IF g.directed \/ u = v THEN <<<<u, v>>>> ELSE <<<<u, v>>, <<v, u>>>>

\* G[u][v]['lines'] = value, on the one data dictionary of the edge
SetLines(g, u, v, value) ==
    [g EXCEPT !.lines = [e \in (DOMAIN @) \cup SeqToSet(Orientations(g, u, v)) |->
                            IF e \in SeqToSet(Orientations(g, u, v)) THEN value ELSE @[e]]]

\* a variant of AddOrUpdateEdge that sets the line list of an existing edge to [route]
AddOrOverwriteEdge(g, u, v, route) ==
    IF HasEdge(g, u, v) THEN SetLines(g, u, v, <<route>>)
    ELSE [SetLines(g, u, v, <<route>>) EXCEPT !.edges = @ \o Orientations(g, u, v)]

\* if G.has_edge(u, v): append the route unless present; else G.add_edge(u, v, lines=[route])
AddOrUpdateEdge(g, u, v, route) ==
    IF HasEdge(g, u, v)
    THEN IF InSeq(route, g.lines[<<u, v>>]) THEN g
         ELSE SetLines(g, u, v, Append(g.lines[<<u, v>>], route))
    ELSE [SetLines(g, u, v, <<route>>) EXCEPT !.edges = @ \o Orientations(g, u, v)]

RECURSIVE AddEdges(_, _, _)
AddEdges(g, pairs, route) ==
    IF pairs = <<>> THEN g
    ELSE AddEdges(AddOrUpdateEdge(g, Head(pairs)[1], Head(pairs)[2], route), Tail(pairs), route)

\* a variant of AllPairsForward that pairs each stop with the next one only
AllPairsForwardAdjacent(ids) ==
    IF Len(ids) < 2 THEN <<>> ELSE [i \in 1..(Len(ids) - 1) |-> <<ids[i], ids[i + 1]>>]

\* for i in range(len(ids)): for j in range(i + 1, len(ids)): (ids[i], ids[j])
RECURSIVE AllPairsForward(_)
AllPairsForward(ids) ==
    IF Len(ids) < 2 THEN <<>>
    ELSE [j \in 1..(Len(ids) - 1) |-> <<ids[1], ids[j + 1]>>] \o AllPairsForward(Tail(ids))

\* for i in range(len(ids) - 1): (ids[i], ids[i + 1])
ConsecutivePairs(ids) ==
    IF Len(ids) < 2 THEN <<>> ELSE [i \in 1..(Len(ids) - 1) |-> <<ids[i], ids[i + 1]>>]

\* for u, v, data in G.edges(data=True): data['lines'] = sorted(data['lines'])
SortLines(g) == [g EXCEPT !.lines = [e \in DOMAIN @ |-> Sorted(@[e])]]

-----------------------------------------------------------------------------
(* mta_graph.py: SubwayGraph.build_graph                                   *)

\* a variant of SubwayPass in which a raise of the resolver keeps what the stops before
\* it have added to the graph
SubwayPassKeeping(g, t, st, cd, route, direction) ==
    LET stops == SubwayOrderedStops(t, st, route, direction)
        before(s) == SubSeq(s, 1, (CHOOSE n \in 0..Len(s) :
                        /\ ~IsRaise(ResolveAll(cd.v, SubSeq(s, 1, n)))
                        /\ \A m \in (n + 1)..Len(s) : IsRaise(ResolveAll(cd.v, SubSeq(s, 1, m)))))
    IN  IF IsRaise(stops) THEN g
        ELSE LET complex_ids == ResolveAll(cd.v, before(stops.v))
             IN  AddEdges(AddNodes(g, cd.v, complex_ids.v),
                          AllPairsForward(complex_ids.v), route)

\* the body of the try block for one (route, direction); an exception leaves g as it was
SubwayPass(g, t, st, cd, route, direction) ==
    LET stops == SubwayOrderedStops(t, st, route, direction)
    IN  IF IsRaise(stops) THEN g
        ELSE LET complex_ids == ResolveAll(cd.v, stops.v)
             IN  IF IsRaise(complex_ids) THEN g
                 ELSE AddEdges(AddNodes(g, cd.v, complex_ids.v),
                               AllPairsForward(complex_ids.v), route)

\* for route in routes: for direction in [0, 1]
RECURSIVE SubwayPasses(_, _, _, _, _)
SubwayPasses(g, t, st, cd, routes) ==
    IF routes = <<>> THEN g
    ELSE SubwayPasses(
            SubwayPass(SubwayPass(g, t, st, cd, Head(routes), 0), t, st, cd, Head(routes), 1),
            t, st, cd, Tail(routes))

\* the graph that SubwayGraph.build_graph assigns to cls.G
SubwayBuild(t, st, cd) ==
    SortLines(SubwayPasses(EmptyGraph(TRUE), t, st, cd, RouteIds(t.v)))

-----------------------------------------------------------------------------
(* mta_complex_graph.py: MTAComplexGraph.build_graph                       *)

\* the body of the try block for one (route, direction); published is cls.G during the build
ComplexPass(g, published, t, st, cd, route, direction) ==
    LET stops == ComplexOrderedStops(published, t, st, cd, route, direction)
    IN  IF IsRaise(stops) THEN g
        ELSE LET complex_ids == ResolveAll(cd.v, stops.v)
             IN  IF IsRaise(complex_ids) THEN g
                 ELSE AddEdges(AddNodes(g, cd.v, complex_ids.v),
                               ConsecutivePairs(complex_ids.v), route)

RECURSIVE ComplexPasses(_, _, _, _, _, _)
ComplexPasses(g, published, t, st, cd, routes) ==
    IF routes = <<>> THEN g
    ELSE ComplexPasses(
            ComplexPass(ComplexPass(g, published, t, st, cd, Head(routes), 0),
                        published, t, st, cd, Head(routes), 1),
            published, t, st, cd, Tail(routes))

\* the graph that MTAComplexGraph.build_graph assigns to cls.G
ComplexBuild(published, t, st, cd) ==
    SortLines(ComplexPasses(EmptyGraph(FALSE), published, t, st, cd, RouteIds(t.v)))

-----------------------------------------------------------------------------
(* networkx searches.  Every edge counts 1.  Which of several shortest     *)
(* paths nx.shortest_path returns is networkx's choice: ShortestPaths is   *)
(* the set it chooses from, and nx.all_shortest_paths enumerates that set  *)
(* (the order of the enumeration is not modelled).                         *)

Succ(g, n) == {e[2] : e \in {d \in DOMAIN g.lines : d[1] = n}}

\* breadth-first search from the source: level[i] is the set of nodes at distance i - 1
RECURSIVE BfsLevels(_, _, _)
BfsLevels(g, levels, visited) ==
    LET frontier == levels[Len(levels)]
        next == UNION {Succ(g, n) : n \in frontier} \ visited
    IN  IF next = {} THEN levels
        ELSE BfsLevels(g, Append(levels, next), visited \cup next)

\* a variant of PathsAtLevel that follows one predecessor of each node only
RECURSIVE PathsAtLevelFirst(_, _, _, _)
PathsAtLevelFirst(g, levels, i, n) ==
    IF i = 1 THEN {<<n>>}
    ELSE LET u == CHOOSE u \in levels[i - 1] : n \in Succ(g, u)
         IN  {Append(p, n) : p \in PathsAtLevelFirst(g, levels, i - 1, u)}

\* nx.predecessor: the paths from the source that end in n, built back through the levels
RECURSIVE PathsAtLevel(_, _, _, _)
PathsAtLevel(g, levels, i, n) ==
    IF i = 1 THEN {<<n>>}
    ELSE UNION {{Append(p, n) : p \in PathsAtLevel(g, levels, i - 1, u)} :
                    u \in {u \in levels[i - 1] : n \in Succ(g, u)}}

\* the shortest paths from source to target, both nodes of g; {} when there is none
ShortestPaths(g, source, target) ==
    LET levels == BfsLevels(g, <<{source}>>, {source})
        at == {i \in 1..Len(levels) : target \in levels[i]}
    IN  IF at = {} THEN {}
        ELSE PathsAtLevel(g, levels, CHOOSE i \in at : TRUE, target)

\* nx.shortest_path(G, source, target): the outcomes, a path or the exception raised
NxShortestPath(g, source, target) ==
    IF ~HasNode(g, source) \/ ~HasNode(g, target) THEN {Raise("NodeNotFound")}
    ELSE IF ShortestPaths(g, source, target) = {} THEN {Raise("NetworkXNoPath")}
    ELSE {Val(p) : p \in ShortestPaths(g, source, target)}

\* list(nx.all_shortest_paths(G, source, target)): the paths, or the exception raised
NxAllShortestPaths(g, source, target) ==
    IF ~HasNode(g, source) THEN Raise("NodeNotFound")
    ELSE IF ~HasNode(g, target) \/ ShortestPaths(g, source, target) = {}
         THEN Raise("NetworkXNoPath")
    ELSE Val(ShortestPaths(g, source, target))

-----------------------------------------------------------------------------
(* mta_graph.py: the query surface of SubwayGraph.                         *)
(* g is cls.G and cd is cls._complexes, each None or Val(...).             *)

\* _assert_built: the exception it raises, or None when the graph is built
AssertBuilt(g) == IF IsNone(g) THEN Raise("RuntimeError") ELSE None

\* sorted(lines) for a set of route ids
RECURSIVE SortedSet(_)
SortedSet(S) ==
    IF S = {} THEN <<>>
    ELSE LET least == CHOOSE x \in S : \A y \in S : CodePoint(x) <= CodePoint(y)
         IN  <<least>> \o SortedSet(S \ {least})

\* the first node, in node order, whose stop_name is the name
stop_name_to_complex_id(g, name) ==
    IF IsNone(g) THEN AssertBuilt(g)
    ELSE LET hits == {i \in 1..Len(g.v.nodes) : g.v.attrs[g.v.nodes[i]].stop_name = name}
         IN  IF hits = {} THEN None
             ELSE Val(g.v.nodes[CHOOSE i \in hits : \A j \in hits : i <= j])

complex_id_to_name(g, complex_id) ==
    IF IsNone(g) THEN AssertBuilt(g)
    ELSE IF HasNode(g.v, complex_id) THEN Val(g.v.attrs[complex_id].stop_name) ELSE None

\* the lines of the out-edges and of the in-edges of a node, sorted
LinesAtNode(gr, complex_id) ==
    SortedSet(UNION {SeqToSet(gr.lines[e]) :
                        e \in {d \in DOMAIN gr.lines : d[1] = complex_id \/ d[2] = complex_id}})

\* lines_at_gtfs_stop_id from the resolver's outcome on: the lookup in cls.G
LinesAtResolved(g, complex_id) ==
    IF IsRaise(complex_id) THEN complex_id
    ELSE IF ~Truthy(complex_id) \/ ~HasNode(g.v, complex_id.v) THEN Val(<<>>)
    ELSE Val(LinesAtNode(g.v, complex_id.v))

lines_at_gtfs_stop_id(g, cd, gtfs_stop_id) ==
    IF IsNone(g) THEN AssertBuilt(g)
    ELSE LinesAtResolved(g, get_complex_id_by_gtfs_stop_id(cd.v, gtfs_stop_id))

lines_at_complex_id(g, complex_id) ==
    IF IsNone(g) THEN AssertBuilt(g)
    ELSE IF complex_id = <<>> \/ ~HasNode(g.v, complex_id) THEN Val(<<>>)
    ELSE Val(LinesAtNode(g.v, complex_id))

\* list(cls.G.successors(complex_id)): networkx raises for a node that is not in the graph
successors(g, complex_id) ==
    IF IsNone(g) THEN AssertBuilt(g)
    ELSE IF ~HasNode(g.v, complex_id) THEN Raise("NetworkXError")
    ELSE LET out == SelectSeq(g.v.edges, LAMBDA e : e[1] = complex_id)
         IN  Val([i \in 1..Len(out) |-> out[i][2]])

connecting_lines(g, u, v) ==
    IF IsNone(g) THEN AssertBuilt(g)
    ELSE IF HasEdge(g.v, u, v) THEN Val(g.v.lines[<<u, v>>]) ELSE Val(<<>>)

\* a variant of CatchNoPath with no except clause
CatchNothing(r, otherwise) == r

\* try: nx.shortest_path(...) except nx.NetworkXNoPath: return None
CatchNoPath(r, otherwise) ==
    IF IsRaise(r) /\ r.exc = "NetworkXNoPath" THEN otherwise ELSE r

\* the outcomes of shortest_path(start, end)
shortest_path(g, start, end) ==
    IF IsNone(g) THEN {AssertBuilt(g)}
    ELSE {CatchNoPath(r, None) : r \in NxShortestPath(g.v, start, end)}

\* the (station, lines) list of shortest_path_with_lines for a path
WithLines(g, path) ==
    [i \in 1..Len(path) |->
        IF i < Len(path) THEN <<path[i], connecting_lines(g, path[i], path[i + 1]).v>>
        ELSE <<path[i], <<>>>>]

shortest_path_with_lines(g, start, end) ==
    {IF IsRaise(path) THEN path
     ELSE IF ~Truthy(path) THEN None
     ELSE Val(WithLines(g, path.v)) : path \in shortest_path(g, start, end)}

\* a variant of JoinComma that joins the lines with nothing in between
RECURSIVE JoinBare(_)
JoinBare(lines) ==
    IF lines = <<>> THEN <<>> ELSE <<Head(lines)>> \o JoinBare(Tail(lines))

\* ", ".join(lines)
RECURSIVE JoinComma(_)
JoinComma(lines) ==
    IF lines = <<>> THEN <<>>
    ELSE IF Len(lines) = 1 THEN lines
    ELSE <<Head(lines), ", ">> \o JoinComma(Tail(lines))

\* "\n".join(directions)
RECURSIVE JoinNewline(_)
JoinNewline(directions) ==
    IF directions = <<>> THEN <<>>
    ELSE IF Len(directions) = 1 THEN Head(directions)
    ELSE Head(directions) \o <<"\n">> \o JoinNewline(Tail(directions))

\* f"Start at {name} ({station})", as the pieces of the text
StartLine(name, station) == <<"Start at ", name, " (">> \o station \o <<")">>
\* f"Take the {line_str} trains to {name} ({station})"
TakeLine(lines, name, station) ==
    <<"Take the ">> \o JoinComma(lines) \o <<" trains to ", name, " (">> \o station \o <<")">>
\* f"Transfer at {name} ({station})"
TransferLine(name, station) == <<"Transfer at ", name, " (">> \o station \o <<")">>

\* complex_id_to_name inside an f-string: the name, or the text None
NameText(g, complex_id) ==
    LET n == complex_id_to_name(g, complex_id) IN IF IsVal(n) THEN n.v ELSE "None"

\* the text of get_directions for the list shortest_path_with_lines returned
DirectionsText(g, pwl) ==
    JoinNewline(
        <<StartLine(NameText(g, pwl[1][1]), pwl[1][1])>> \o
        [i \in 1..(Len(pwl) - 1) |->
            IF pwl[i][2] # <<>>
            THEN TakeLine(pwl[i][2], NameText(g, pwl[i + 1][1]), pwl[i + 1][1])
            ELSE TransferLine(NameText(g, pwl[i + 1][1]), pwl[i + 1][1])])

get_directions(g, start, end) ==
    {IF IsRaise(pwl) THEN pwl
     ELSE IF ~Truthy(pwl) THEN None
     ELSE Val(DirectionsText(g, pwl.v)) : pwl \in shortest_path_with_lines(g, start, end)}

all_shortest_paths(g, start, end) ==
    IF IsNone(g) THEN AssertBuilt(g)
    ELSE CatchNoPath(NxAllShortestPaths(g.v, start, end), Val({}))

\* the segments of get_directions_for_path; the first helper call raises when not built
get_directions_for_path(g, path) ==
    IF Len(path) < 2 THEN Val(<<>>)
    ELSE IF IsNone(g) THEN AssertBuilt(g)
    ELSE Val([i \in 1..(Len(path) - 1) |->
                [from_station |-> path[i],
                 from_name |-> complex_id_to_name(g, path[i]),
                 to_station |-> path[i + 1],
                 to_name |-> complex_id_to_name(g, path[i + 1]),
                 lines |-> connecting_lines(g, path[i], path[i + 1]).v]])

get_all_directions(g, start, end) ==
    LET paths == all_shortest_paths(g, start, end)
    IN  IF IsRaise(paths) THEN paths
        ELSE Val({get_directions_for_path(g, path).v : path \in paths.v})

-----------------------------------------------------------------------------
(* mta_complex_graph.py: the query surface of MTAComplexGraph              *)

ComplexConnectingLines(g, complex_id_1, complex_id_2) ==
    IF IsNone(g) THEN AssertBuilt(g)
    ELSE IF HasEdge(g.v, complex_id_1, complex_id_2)
         THEN Val(g.v.lines[<<complex_id_1, complex_id_2>>]) ELSE Val(<<>>)

\* the outcomes of shortest_path: (path, lines), ([], []) when there is no path
ComplexShortestPath(g, complex_id_1, complex_id_2) ==
    IF IsNone(g) THEN {AssertBuilt(g)}
    ELSE {IF IsRaise(r) THEN CatchNoPath(r, Val(<<<<>>, <<>>>>))
          ELSE Val(<<r.v, [i \in 1..(Len(r.v) - 1) |-> g.v.lines[<<r.v[i], r.v[i + 1]>>]]>>) :
              r \in NxShortestPath(g.v, complex_id_1, complex_id_2)}

-----------------------------------------------------------------------------
(* The source files                                                        *)

MaxTrips == 3

\* Complexes.csv: complex "1" lists a plain and a northbound stop, complex "2" only a
\* northbound stop, complex "3" a stop whose base id is the id of complex "4"
Registry ==
    << [complex_id |-> <<"1">>, num_stations |-> 2, gtfs_stop_ids |-> << <<"1">>, <<"A", "N">> >>],
       [complex_id |-> <<"2">>, num_stations |-> 1, gtfs_stop_ids |-> << <<"2", "N">>, <<>> >>],
       [complex_id |-> <<"3">>, num_stations |-> 2, gtfs_stop_ids |-> << <<"3">>, <<"4", "N">> >>],
       [complex_id |-> <<"4">>, num_stations |-> 1, gtfs_stop_ids |-> << <<"C">> >>] >>

\* stops.txt: stop_id -> stop_name; "C" has no row
Stops ==
    [id \in { <<"1">>, <<"A", "N">>, <<"2", "N">>, <<"3">> } |->
        IF id = <<"1">> THEN "Alpha St"
        ELSE IF id = <<"A", "N">> THEN "Alpha Av"
        ELSE IF id = <<"2", "N">> THEN "Beta St" ELSE "Gamma St"]

\* the trips a trips.txt / stop_times.txt pair is drawn from: trip_id, route_id,
\* direction_id and the stops in stop_sequence order
CandidateTrips ==
    { [trip_id |-> 1, route_id |-> "B", direction_id |-> 0,
       stops |-> << <<"1">>, <<"2", "S">>, <<"3">> >>],
      [trip_id |-> 2, route_id |-> "B", direction_id |-> 1,
       stops |-> << <<"3">>, <<"2", "S">>, <<"C">> >>],
      [trip_id |-> 3, route_id |-> "A", direction_id |-> 0,
       stops |-> << <<"1">>, <<"3">> >>],
      [trip_id |-> 4, route_id |-> "A", direction_id |-> 0,
       stops |-> << <<"1">>, <<"Z">>, <<"3">>, <<"A">>, <<"2", "S">> >>],
      [trip_id |-> 5, route_id |-> "B", direction_id |-> 0,
       stops |-> << <<"C">>, <<"1">> >>],
      [trip_id |-> 6, route_id |-> "4", direction_id |-> 1,
       stops |-> << <<"A", "S">>, <<"A">> >>],
      [trip_id |-> 7, route_id |-> "A", direction_id |-> 1,
       stops |-> << <<"3">>, <<>>, <<"1">> >>] }

\* the trips tables: up to MaxTrips distinct candidate trips, in any file order
RECURSIVE TripLists(_)
TripLists(n) ==
    IF n = 0 THEN {<<>>}
    ELSE TripLists(n - 1) \cup
         {Append(l, c) : l \in {m \in TripLists(n - 1) : Len(m) = n - 1},
                         c \in CandidateTrips} 

Injective(l) == \A i, j \in 1..Len(l) : i # j => l[i] # l[j]

\* trips.txt and stop_times.txt for a list of trips
TripsTable(l) ==
    [i \in 1..Len(l) |->
        [trip_id |-> l[i].trip_id, route_id |-> l[i].route_id,
         direction_id |-> l[i].direction_id]]

StopTimesTable(l) ==
    UNION {{[trip_id |-> l[i].trip_id, stop_id |-> l[i].stops[p], stop_sequence |-> p] :
                p \in 1..Len(l[i].stops)} : i \in 1..Len(l)}

Sources ==
    {[registry |-> Registry, stops |-> Stops,
      trips |-> TripsTable(l), stop_times |-> StopTimesTable(l)] :
        l \in {m \in TripLists(MaxTrips) : Injective(m)}}

\* the arguments the queries are called with
QueryIds == { <<"1">>, <<"2">>, <<"3">>, <<"4">>, <<"9">> }
QueryStopIds == { <<"1">>, <<"A">>, <<"2", "S">>, <<"4">>, <<"C">>, <<"Z">>, <<>> }
QueryNames == {"Alpha St", "Beta St", "Unknown", "Nowhere"}
QueryRoutes == {"A", "B", "4"}
QueryPaths == { <<>>, << <<"1">> >>, << <<"1">>, <<"2">> >>, << <<"9">>, <<"1">> >>,
                << <<"1">>, <<"3">>, <<"2">> >> }

-----------------------------------------------------------------------------
(* The process: build_graph calls and queries, one at a time                *)

Idle == [op |-> "idle"]
Call(op, args, res) == [op |-> op, args |-> args, res |-> res]

\* the build_graph calls that may be in progress at once, and a call not in progress
MaxBuilders == 2
Builders == 1..MaxBuilders
NotBuilding == [pc |-> "idle"]
NoBuilders == [b \in Builders |-> NotBuilding]
NoReader == [pc |-> "idle"]

Init ==
    /\ cls \in {"SubwayGraph", "MTAComplexGraph"}
    /\ files \in Sources
    /\ G = None
    /\ complexes = None
    /\ trips = None
    /\ stop_times = None
    /\ history = <<>>
    /\ ret = Idle
    /\ builders = NoBuilders
    /\ reader = NoReader

\* the graph a build_graph call publishes, from the caches it has just loaded
BuiltGraph(t, st, cd) ==
    IF cls = "SubwayGraph" THEN SubwayBuild(t, st, cd) ELSE ComplexBuild(G, t, st, cd)

\* cls.build_graph(): load the sources into the class-level caches, build, publish
BuildGraph ==
    /\ ret = Idle
    /\ complexes' = Val(ComplexesData(files))
    /\ trips' = Val(files.trips)
    /\ stop_times' = Val(files.stop_times)
    /\ G' = Val(BuiltGraph(trips', stop_times', complexes'))
    /\ history' = IF Len(history) < 2 THEN Append(history, G'.v) ELSE history
    /\ UNCHANGED <<cls, files, ret, builders, reader>>

\* a variant of Query in which successors leaves the node it was asked about in cls.G
QueryAddingNode(op, args, outcomes) ==
    /\ \E res \in outcomes : ret' = Call(op, args, res)
    /\ G' = IF op = "successors" /\ IsVal(G) /\ ~HasNode(G.v, args[1])
            THEN Val([G.v EXCEPT !.nodes = Append(@, args[1])])
            ELSE G
    /\ UNCHANGED <<cls, files, complexes, trips, stop_times, history, builders, reader>>

\* a query: the caches and the graph are read, the outcome is handed to the caller;
\* every query action starts from an idle caller (ret = Idle)
Query(op, args, outcomes) ==
    /\ \E res \in outcomes : ret' = Call(op, args, res)
    /\ UNCHANGED <<cls, files, G, complexes, trips, stop_times, history, builders, reader>>

Successors ==
    /\ ret = Idle
    /\ cls = "SubwayGraph"
    /\ \E a \in QueryIds : Query("successors", <<a>>, {successors(G, a)})

ConnectingLines ==
    /\ ret = Idle
    /\ \E a, b \in QueryIds :
           Query("connecting_lines", <<a, b>>,
                 {IF cls = "SubwayGraph" THEN connecting_lines(G, a, b)
                  ELSE ComplexConnectingLines(G, a, b)})

LinesAtComplexId ==
    /\ ret = Idle
    /\ cls = "SubwayGraph"
    /\ \E a \in QueryIds : Query("lines_at_complex_id", <<a>>, {lines_at_complex_id(G, a)})

LinesAtGtfsStopId ==
    /\ ret = Idle
    /\ cls = "SubwayGraph"
    /\ \E s \in QueryStopIds :
         Query("lines_at_gtfs_stop_id", <<s>>, {lines_at_gtfs_stop_id(G, complexes, s)})

ShortestPath ==
    /\ ret = Idle
    /\ \E a, b \in QueryIds :
           Query("shortest_path", <<a, b>>,
                 IF cls = "SubwayGraph" THEN shortest_path(G, a, b)
                 ELSE ComplexShortestPath(G, a, b))

AllShortestPaths ==
    /\ ret = Idle
    /\ cls = "SubwayGraph"
    /\ \E a, b \in QueryIds :
         Query("all_shortest_paths", <<a, b>>, {all_shortest_paths(G, a, b)})

ShortestPathWithLines ==
    /\ ret = Idle
    /\ cls = "SubwayGraph"
    /\ \E a, b \in QueryIds :
         Query("shortest_path_with_lines", <<a, b>>, shortest_path_with_lines(G, a, b))

GetDirections ==
    /\ ret = Idle
    /\ cls = "SubwayGraph"
    /\ \E a, b \in QueryIds : Query("get_directions", <<a, b>>, get_directions(G, a, b))

GetDirectionsForPath ==
    /\ ret = Idle
    /\ cls = "SubwayGraph"
    /\ \E p \in QueryPaths :
         Query("get_directions_for_path", <<p>>, {get_directions_for_path(G, p)})

GetAllDirections ==
    /\ ret = Idle
    /\ cls = "SubwayGraph"
    /\ \E a, b \in QueryIds :
         Query("get_all_directions", <<a, b>>, {get_all_directions(G, a, b)})

StopNameToComplexId ==
    /\ ret = Idle
    /\ cls = "SubwayGraph"
    /\ \E n \in QueryNames :
         Query("stop_name_to_complex_id", <<n>>, {stop_name_to_complex_id(G, n)})

ComplexIdToName ==
    /\ ret = Idle
    /\ cls = "SubwayGraph"
    /\ \E a \in QueryIds : Query("complex_id_to_name", <<a>>, {complex_id_to_name(G, a)})

OrderedStops ==
    /\ ret = Idle
    /\ \E r \in QueryRoutes, d \in {0, 1} :
           Query("ordered_stops", <<r, d>>,
                 {IF cls = "SubwayGraph" THEN SubwayOrderedStops(trips, stop_times, r, d)
                  ELSE ComplexOrderedStops(G, trips, stop_times, complexes, r, d)})

\* the caller takes the outcome
Return ==
    /\ ret # Idle
    /\ ret' = Idle
    /\ UNCHANGED <<cls, files, G, complexes, trips, stop_times, history, builders, reader>>

Next ==
    \/ BuildGraph
    \/ Successors
    \/ ConnectingLines
    \/ LinesAtComplexId
    \/ LinesAtGtfsStopId
    \/ ShortestPath
    \/ AllShortestPaths
    \/ ShortestPathWithLines
    \/ GetDirections
    \/ GetDirectionsForPath
    \/ GetAllDirections
    \/ StopNameToComplexId
    \/ ComplexIdToName
    \/ OrderedStops
    \/ Return

Spec == Init /\ [][Next]_vars

-----------------------------------------------------------------------------
(* The resolver on its own: a ComplexesData instance over a registry drawn *)
(* from the two-row registries whose rows list up to MaxMembers entries.   *)

MaxMembers == 2

\* the entries a registry row is drawn from: a base id, its directional variants,
\* a northbound id of a second base, and an empty entry
RegistryEntries == { <<"A">>, <<"A", "N">>, <<"A", "S">>, <<"B", "N">>, <<>> }

RECURSIVE EntryLists(_)
EntryLists(n) ==
    IF n = 0 THEN {<<>>}
    ELSE EntryLists(n - 1) \cup
         {Append(l, e) : l \in {m \in EntryLists(n - 1) : Len(m) = n - 1},
                         e \in RegistryEntries}

RegistryRow(complex_id, entries) ==
    [complex_id |-> complex_id, num_stations |-> Len(entries) + 1, gtfs_stop_ids |-> entries]

ResolverSources ==
    {[registry |-> <<RegistryRow(<<"1">>, l1), RegistryRow(<<"2">>, l2)>>,
      stops |-> Stops, trips |-> <<>>, stop_times |-> {}] :
        l1 \in EntryLists(MaxMembers), l2 \in EntryLists(MaxMembers)}

ResolverStopIds ==
    { <<"A">>, <<"A", "N">>, <<"A", "S">>, <<"B">>, <<"B", "N">>, <<"B", "S">>, <<"Z">>, <<>> }
ResolverComplexIds == { <<"1">>, <<"2">>, <<"9">> }

InitResolver ==
    /\ cls = "SubwayGraph"
    /\ files \in ResolverSources
    /\ complexes = Val(ComplexesData(files))
    /\ G = None
    /\ trips = None
    /\ stop_times = None
    /\ history = <<>>
    /\ ret = Idle
    /\ builders = NoBuilders
    /\ reader = NoReader

GetComplexIdByGtfsStopId ==
    /\ ret = Idle
    /\ \E s \in ResolverStopIds :
           Query("get_complex_id_by_gtfs_stop_id", <<s>>,
                 {get_complex_id_by_gtfs_stop_id(complexes.v, s)})

GetNumberOfStations ==
    /\ ret = Idle
    /\ \E c \in ResolverComplexIds :
           Query("get_number_of_stations", <<c>>, {get_number_of_stations(complexes.v, c)})

GetGtfsStopIdsByComplexId ==
    /\ ret = Idle
    /\ \E c \in ResolverComplexIds :
           Query("get_gtfs_stop_ids_by_complex_id", <<c>>,
                 {get_gtfs_stop_ids_by_complex_id(complexes.v, c)})

GetStationName ==
    /\ ret = Idle
    /\ \E c \in ResolverComplexIds :
           Query("get_station_name", <<c>>, {Val(get_station_name(complexes.v, c))})

NextResolver ==
    \/ GetComplexIdByGtfsStopId
    \/ GetNumberOfStations
    \/ GetGtfsStopIdsByComplexId
    \/ GetStationName
    \/ Return

SpecResolver == InitResolver /\ [][NextResolver]_vars

-----------------------------------------------------------------------------
(* Definitions the properties are stated with                               *)

Built == IsVal(G)
IsSubway == cls = "SubwayGraph"
IsComplex == cls = "MTAComplexGraph"
NodeSet(g) == SeqToSet(g.nodes)
EdgeSet(g) == DOMAIN g.lines
Called(op) == ret # Idle /\ ret.op = op

\* the node sequences of k + 1 nodes from a along k edges of g
RECURSIVE WalksFrom(_, _, _)
WalksFrom(g, a, k) ==
    IF k = 0 THEN {<<a>>}
    ELSE UNION {{Append(w, n) : n \in {m \in NodeSet(g) : <<w[Len(w)], m>> \in EdgeSet(g)}} :
                    w \in WalksFrom(g, a, k - 1)}

WalksTo(g, a, b, k) == {w \in WalksFrom(g, a, k) : w[Len(w)] = b}

\* the hop counts, below the number of nodes, with which b is reached from a
HopCounts(g, a, b) == {k \in 0..(Len(g.nodes) - 1) : WalksTo(g, a, b, k) # {}}
NoPath(g, a, b) == HopCounts(g, a, b) = {}
MinHops(g, a, b) == CHOOSE k \in HopCounts(g, a, b) : \A j \in HopCounts(g, a, b) : k <= j

\* a complex sequence with its consecutive repeats collapsed
RECURSIVE Collapse(_)
Collapse(s) ==
    IF Len(s) < 2 THEN s
    ELSE IF s[1] = s[2] THEN Collapse(Tail(s))
    ELSE <<s[1]>> \o Collapse(Tail(s))

\* the stops of a trip of the trips table, by stop_sequence, and their complexes
TripStops(trip_id) == SortedStopIds({r \in stop_times.v : r.trip_id = trip_id})
TripComplexes(trip_id) == ResolveAll(complexes.v, TripStops(trip_id))
TripsOf(route) == {i \in 1..Len(trips.v) : trips.v[i].route_id = route}
RoutesOfTable == {trips.v[i].route_id : i \in 1..Len(trips.v)}

\* the representative trip's stops for (route, direction), as the build obtains them
Representative(route, direction) ==
    IF IsSubway THEN SubwayOrderedStops(trips, stop_times, route, direction)
    ELSE OrderedStopsFirst(trips.v, stop_times.v, route, direction)

\* the resolved complex sequence of the representative trip, when there is one
RepresentativeComplexes(route, direction) ==
    LET stops == Representative(route, direction)
    IN  IF IsRaise(stops) THEN stops ELSE ResolveAll(complexes.v, stops.v)

-----------------------------------------------------------------------------
(* C1: build is idempotent in both build modes: after a second build_graph *)
(* call on the same sources, the first one starting from the not-built     *)
(* state, the node set, the edge set and every edge's sorted line list are *)
(* those the first call published.                                         *)
C1_BuildIdempotent ==
    Len(history) = 2 =>
        /\ NodeSet(history[2]) = NodeSet(history[1])
        /\ EdgeSet(history[2]) = EdgeSet(history[1])
        /\ \A e \in EdgeSet(history[1]) \cap EdgeSet(history[2]) :
               history[2].lines[e] = history[1].lines[e]

(* C2: every operation of the query surface, called with any arguments     *)
(* while the graph is not built, fails with the "not built" error          *)
(* (RuntimeError) and returns no value.                                     *)
C2_NotBuiltFails ==
    (ret # Idle /\ ~Built) => ret.res = Raise("RuntimeError")

(* C3: on a built graph, a query given a complex id that is not a node     *)
(* returns an empty or None value and never raises: successors,            *)
(* shortest_path, all_shortest_paths, connecting_lines,                    *)
(* lines_at_complex_id and complex_id_to_name.                              *)
C3_UnknownIdNeverRaises ==
    (/\ Built
     /\ ret # Idle
     /\ ret.op \in {"successors", "shortest_path", "all_shortest_paths",
                    "connecting_lines", "lines_at_complex_id", "complex_id_to_name"}
     /\ \E i \in 1..Len(ret.args) : ~HasNode(G.v, ret.args[i]))
        => ~IsRaise(ret.res)

C4_Disconnected(op) ==
    /\ Built
    /\ Called(op)
    /\ HasNode(G.v, ret.args[1])
    /\ HasNode(G.v, ret.args[2])
    /\ NoPath(G.v, ret.args[1], ret.args[2])

(* C4: on a built graph, for two nodes a and b with no path from a to b,   *)
(* shortest_path returns None (([], []) in the undirected class),          *)
(* all_shortest_paths returns the empty list and get_directions returns    *)
(* None; none of them raises.                                               *)
C4_NoPathIsNotFound ==
    /\ C4_Disconnected("shortest_path") =>
          ret.res = IF IsSubway THEN None ELSE Val(<<<<>>, <<>>>>)
    /\ C4_Disconnected("all_shortest_paths") => ret.res = Val({})
    /\ C4_Disconnected("get_directions") => ret.res = None

C4_Witness ==
    /\ C4_Disconnected("shortest_path")
    /\ IsSubway
    /\ ret.args[1] # ret.args[2]
    /\ G.v.edges # <<>>

C5_Connected(op) ==
    /\ Built
    /\ Called(op)
    /\ HasNode(G.v, ret.args[1])
    /\ HasNode(G.v, ret.args[2])
    /\ ~NoPath(G.v, ret.args[1], ret.args[2])

C5_MinimalPaths == WalksTo(G.v, ret.args[1], ret.args[2], MinHops(G.v, ret.args[1], ret.args[2]))

(* C5: on a built graph, when the minimum hop count from a to b is k,      *)
(* shortest_path returns k + 1 nodes from a to b along edges of the graph, *)
(* and all_shortest_paths returns exactly the set of all such paths: it is *)
(* not empty, every path has k + 1 nodes, and whatever shortest_path       *)
(* returns is one of them.                                                  *)
C5_ShortestPathCorrect ==
    /\ C5_Connected("shortest_path") =>
          /\ IsVal(ret.res)
          /\ (IF IsSubway THEN ret.res.v ELSE ret.res.v[1]) \in C5_MinimalPaths
          /\ IsSubway => ret.res.v \in all_shortest_paths(G, ret.args[1], ret.args[2]).v
    /\ C5_Connected("all_shortest_paths") =>
          /\ ret.res = Val(C5_MinimalPaths)
          /\ ret.res.v # {}
          /\ \A p \in ret.res.v :
                Len(p) = MinHops(G.v, ret.args[1], ret.args[2]) + 1

C5_Witness ==
    /\ C5_Connected("all_shortest_paths")
    /\ MinHops(G.v, ret.args[1], ret.args[2]) = 2
    /\ Cardinality(ret.res.v) = 2

\* every pair (s[i], s[j]), i < j, is an edge of the published graph labelled with the route
AllLaterLabelled(s, route) ==
    \A i, j \in 1..Len(s) :
        i < j => /\ HasEdge(G.v, s[i], s[j])
                 /\ InSeq(route, G.v.lines[<<s[i], s[j]>>])

(* C6 as stated: in the directed all-pairs-forward build, for every route  *)
(* and every trip of that route, if complex b comes after complex a in the *)
(* trip's resolved, de-duplicated complex sequence, the edge (a, b) exists *)
(* and its line list contains the route.                                    *)
C6_EveryTripReachable ==
    (IsSubway /\ Built) =>
        \A route \in RoutesOfTable : \A i \in TripsOf(route) :
            LET ids == TripComplexes(trips.v[i].trip_id)
            IN  IsVal(ids) => AllLaterLabelled(Collapse(ids.v), route)

(* C6 as amended: the same for the trip that ordered_stops selects for     *)
(* each route and direction (the first trip in file order; the trip with   *)
(* the most stops for routes "A" and "4"), when its stops resolve.          *)
C6_RepresentativeTripReachable ==
    (IsSubway /\ Built) =>
        \A route \in RoutesOfTable : \A direction \in {0, 1} :
            LET ids == RepresentativeComplexes(route, direction)
            IN  IsVal(ids) => AllLaterLabelled(Collapse(ids.v), route)

C6_Witness ==
    /\ IsSubway
    /\ Built
    /\ \E route \in RoutesOfTable : \E direction \in {0, 1} :
          LET ids == RepresentativeComplexes(route, direction)
          IN  /\ IsVal(ids)
              /\ Len(Collapse(ids.v)) >= 3
              /\ Cardinality(SeqToSet(ids.v)) >= 3
              /\ Cardinality(TripsOf(route)) >= 2

C7_Traverses(ids, a, b) ==
    IF IsSubway
    THEN \E p, q \in 1..Len(ids) : p < q /\ ids[p] = a /\ ids[q] = b
    ELSE \E p \in 1..(Len(ids) - 1) : {<<ids[p], ids[p + 1]>>, <<ids[p + 1], ids[p]>>} \cap {<<a, b>>} # {}

(* C7: in every built graph a route is in the line list of edge (a, b)     *)
(* only if some trip of the route visits a and then b consecutively in its *)
(* resolved complex sequence (undirected adjacency build) or visits a at   *)
(* an earlier position than b (directed build).                             *)
C7_EdgeLabelsSound ==
    Built =>
        \A e \in EdgeSet(G.v) : \A route \in SeqToSet(G.v.lines[e]) :
            \E i \in TripsOf(route) :
                LET ids == TripComplexes(trips.v[i].trip_id)
                IN  IsVal(ids) /\ C7_Traverses(ids.v, e[1], e[2])

(* C8: after a build in adjacency mode, the first build included, for      *)
(* every route and direction whose representative trip resolves to the     *)
(* complex sequence c1..cn, every ci is a node and every {ci, ci+1} is an  *)
(* edge whose line list contains the route.                                 *)
C8_AdjacencyComplete ==
    (IsComplex /\ Built) =>
        \A route \in RoutesOfTable : \A direction \in {0, 1} :
            LET ids == RepresentativeComplexes(route, direction)
            IN  IsVal(ids) =>
                  LET c == Collapse(ids.v)
                  IN  /\ \A i \in 1..Len(c) : HasNode(G.v, c[i])
                      /\ \A i \in 1..(Len(c) - 1) :
                            /\ HasEdge(G.v, c[i], c[i + 1])
                            /\ InSeq(route, G.v.lines[<<c[i], c[i + 1]>>])

(* C9: in every graph built in adjacency (undirected) mode,                *)
(* connecting_lines(a, b) equals connecting_lines(b, a) for all complex    *)
(* ids a and b, nodes or not.                                               *)
C9_ConnectingLinesSymmetric ==
    (IsComplex /\ Built) =>
        /\ \A a, b \in QueryIds :
              ComplexConnectingLines(G, a, b) = ComplexConnectingLines(G, b, a)
        /\ Called("connecting_lines") =>
              ret.res = ComplexConnectingLines(G, ret.args[2], ret.args[1])

C9_Witness ==
    /\ IsComplex
    /\ Built
    /\ Called("connecting_lines")
    /\ ret.args[1] # ret.args[2]
    /\ IsVal(ret.res)
    /\ Len(ret.res.v) = 2

\* the registry rows, in file order, that list the stop id
RowsListing(id) == {i \in 1..Len(files.registry) : InSeq(id, GtfsList(files.registry[i]))}
Listed(id) == RowsListing(id) # {}
LastListing(id) ==
    files.registry[CHOOSE i \in RowsListing(id) : \A j \in RowsListing(id) : j <= i].complex_id

North(base) == Append(base, "N")
South(base) == Append(base, "S")
Bases == { <<"A">>, <<"B">> }

\* of a base id, only the northbound variant is registered
OnlyNorth(base) == Listed(North(base)) /\ ~Listed(base) /\ ~Listed(South(base))

(* C10: when the registry lists only the variant XN of a base id X,        *)
(* neither X nor XS being listed anywhere, resolving X, XN and XS returns  *)
(* one and the same complex id, that of the complex listing XN.            *)
C10_SuffixNormalization ==
    \A base \in Bases :
        OnlyNorth(base) =>
            /\ \A id \in {base, North(base), South(base)} :
                  get_complex_id_by_gtfs_stop_id(complexes.v, id) = Val(LastListing(North(base)))
            /\ (Called("get_complex_id_by_gtfs_stop_id")
                    /\ ret.args[1] \in {base, North(base), South(base)})
                  => ret.res = Val(LastListing(North(base)))

C10_Witness ==
    /\ OnlyNorth(<<"A">>)
    /\ Called("get_complex_id_by_gtfs_stop_id")
    /\ ret.args[1] = <<"A", "S">>
    /\ ret.res = Val(<<"2">>)
    /\ Listed(<<"B", "N">>)

-----------------------------------------------------------------------------
\* the complex ids of the registry rows
RegistryComplexIds == {files.registry[i].complex_id : i \in 1..Len(files.registry)}

(* C11: the resolver never raises at query time: for every stop id, the    *)
(* empty string and unregistered ids included, get_complex_id_by_gtfs_     *)
(* stop_id returns a complex id of the registry or None; and               *)
(* get_number_of_stations and get_gtfs_stop_ids_by_complex_id return None  *)
(* for an unknown complex id.                                              *)
C11_ResolverNeverRaises ==
    /\ Called("get_complex_id_by_gtfs_stop_id") =>
          \/ ret.res = None
          \/ IsVal(ret.res) /\ ret.res.v \in RegistryComplexIds
    /\ (/\ Called("get_number_of_stations") \/ Called("get_gtfs_stop_ids_by_complex_id")
        /\ ret.args[1] \notin RegistryComplexIds)
          => ret.res = None

-----------------------------------------------------------------------------
(* build_graph and lines_at_gtfs_stop_id statement by statement: calls in  *)
(* several threads interleave between the statements that read or assign a *)
(* class attribute.  The passes over the routes and the lookups in cls.G   *)
(* are each taken as one step.                                             *)

\* a second registry: stop "1" belongs to complex "5"
OtherRegistry ==
    << [complex_id |-> <<"5">>, num_stations |-> 1, gtfs_stop_ids |-> << <<"1">> >>],
       [complex_id |-> <<"2">>, num_stations |-> 1, gtfs_stop_ids |-> << <<"2", "N">> >>] >>

SourceTrips(l) == [trips |-> TripsTable(l), stop_times |-> StopTimesTable(l)]

\* the source directories a build_graph call may find: two complete ones that differ in
\* registry and trips, and one whose stop_times.txt is missing
SourceA ==
    LET l == <<[trip_id |-> 1, route_id |-> "B", direction_id |-> 0,
                stops |-> << <<"1">>, <<"2", "S">>, <<"3">> >>]>>
    IN  [registry |-> Registry, stops |-> Stops, trips |-> SourceTrips(l).trips,
         stop_times |-> SourceTrips(l).stop_times, missing |-> {}]

SourceB ==
    LET l == <<[trip_id |-> 3, route_id |-> "A", direction_id |-> 0,
                stops |-> << <<"1">>, <<"2", "S">> >>]>>
    IN  [registry |-> OtherRegistry, stops |-> Stops, trips |-> SourceTrips(l).trips,
         stop_times |-> SourceTrips(l).stop_times, missing |-> {}]

SourceC == [SourceB EXCEPT !.missing = {"stop_times"}]

ThreadSources == {SourceA, SourceB, SourceC}
ThreadStopIds == { <<"1">>, <<"2", "S">>, <<"Z">> }

\* pd.read_csv / open: raises when the file is not there
ReadCsv(src, name) ==
    IF name \in src.missing THEN Raise("FileNotFoundError") ELSE Val(src[name])

\* ComplexesData(): reads stops.txt and Complexes.csv
NewComplexesData(src) ==
    IF IsRaise(ReadCsv(src, "stops")) THEN ReadCsv(src, "stops")
    ELSE IF IsRaise(ReadCsv(src, "registry")) THEN ReadCsv(src, "registry")
    ELSE Val(ComplexesData(src))

\* a build_graph call that an exception has left
Failed(e) == [pc |-> "failed", exc |-> e]

\* a variant of NewGraph that goes on with the graph object cls.G holds
ReuseGraph(published) ==
    IF IsVal(published) THEN published.v ELSE EmptyGraph(cls = "SubwayGraph")

\* G = nx.DiGraph() / G = nx.Graph(): a new graph object, whatever cls.G holds
NewGraph(published) == EmptyGraph(cls = "SubwayGraph")

InitThreads ==
    /\ cls \in {"SubwayGraph", "MTAComplexGraph"}
    /\ files = SourceA
    /\ G = None
    /\ complexes = None
    /\ trips = None
    /\ stop_times = None
    /\ history = <<>>
    /\ ret = Idle
    /\ builders = NoBuilders
    /\ reader = NoReader

\* what a builder step leaves alone besides the attributes it assigns
BuilderFrame == UNCHANGED <<cls, files, history, ret, reader>>

\* a thread calls cls.build_graph() on the source directory it finds
StartBuild(b) ==
    /\ builders[b].pc \in {"idle", "failed"}
    /\ \E src \in ThreadSources :
           builders' = [builders EXCEPT ![b] = [pc |-> "complexes", src |-> src]]
    /\ UNCHANGED <<G, complexes, trips, stop_times>>
    /\ BuilderFrame

\* cls._complexes = ComplexesData()
LoadComplexes(b) ==
    /\ builders[b].pc = "complexes"
    /\ LET cd == NewComplexesData(builders[b].src)
       IN  IF IsRaise(cd)
           THEN /\ builders' = [builders EXCEPT ![b] = Failed(cd.exc)]
                /\ UNCHANGED complexes
           ELSE /\ builders' = [builders EXCEPT ![b].pc = "trips"]
                /\ complexes' = cd
    /\ UNCHANGED <<G, trips, stop_times>>
    /\ BuilderFrame

\* cls._stops = pd.read_csv(stops.txt); cls._trips = pd.read_csv(trips.txt)
LoadTrips(b) ==
    /\ builders[b].pc = "trips"
    /\ LET t == ReadCsv(builders[b].src, "trips")
       IN  IF IsRaise(t)
           THEN /\ builders' = [builders EXCEPT ![b] = Failed(t.exc)]
                /\ UNCHANGED trips
           ELSE /\ builders' = [builders EXCEPT ![b].pc = "stop_times"]
                /\ trips' = t
    /\ UNCHANGED <<G, complexes, stop_times>>
    /\ BuilderFrame

\* cls._stop_times = pd.read_csv(stop_times.txt)
LoadStopTimes(b) ==
    /\ builders[b].pc = "stop_times"
    /\ LET st == ReadCsv(builders[b].src, "stop_times")
       IN  IF IsRaise(st)
           THEN /\ builders' = [builders EXCEPT ![b] = Failed(st.exc)]
                /\ UNCHANGED stop_times
           ELSE /\ builders' = [builders EXCEPT ![b].pc = "new"]
                /\ stop_times' = st
    /\ UNCHANGED <<G, complexes, trips>>
    /\ BuilderFrame

\* routes = cls._trips['route_id'].unique(); G = nx.DiGraph()
NewLocalGraph(b) ==
    /\ builders[b].pc = "new"
    /\ builders' = [builders EXCEPT ![b] =
                       [pc |-> "passes", src |-> @.src,
                        routes |-> RouteIds(trips.v), G |-> NewGraph(G)]]
    /\ UNCHANGED <<G, complexes, trips, stop_times>>
    /\ BuilderFrame

\* the passes over (route, direction), on the class attributes as they are now, and the
\* sorting of the line lists
Passes(b) ==
    /\ builders[b].pc = "passes"
    /\ LET local == builders[b].G
           routes == builders[b].routes
           built == IF cls = "SubwayGraph"
                    THEN SubwayPasses(local, trips, stop_times, complexes, routes)
                    ELSE ComplexPasses(local, G, trips, stop_times, complexes, routes)
       IN  builders' = [builders EXCEPT ![b] =
                           [pc |-> "publish", src |-> @.src, G |-> SortLines(built)]]
    /\ UNCHANGED <<G, complexes, trips, stop_times>>
    /\ BuilderFrame

\* cls.G = G
Publish(b) ==
    /\ builders[b].pc = "publish"
    /\ G' = Val(builders[b].G)
    /\ builders' = [builders EXCEPT ![b] = NotBuilding]
    /\ UNCHANGED <<complexes, trips, stop_times>>
    /\ BuilderFrame

\* what a reader step leaves alone
ReaderFrame ==
    UNCHANGED <<cls, files, G, complexes, trips, stop_times, history, builders>>

\* a thread calls SubwayGraph.lines_at_gtfs_stop_id(s): cls._assert_built()
ReadAssertBuilt ==
    /\ ret = Idle
    /\ reader.pc = "idle"
    /\ cls = "SubwayGraph"
    /\ \E s \in ThreadStopIds :
           IF IsNone(G)
           THEN /\ ret' = Call("lines_at_gtfs_stop_id", <<s>>, AssertBuilt(G))
                /\ UNCHANGED reader
           ELSE /\ reader' = [pc |-> "resolve", gtfs_stop_id |-> s]
                /\ UNCHANGED ret
    /\ ReaderFrame

\* complex_id = cls._complexes.get_complex_id_by_gtfs_stop_id(gtfs_stop_id)
ReadResolve ==
    /\ reader.pc = "resolve"
    /\ reader' = [pc |-> "graph", gtfs_stop_id |-> reader.gtfs_stop_id,
                  complex_id |-> get_complex_id_by_gtfs_stop_id(complexes.v,
                                                                reader.gtfs_stop_id)]
    /\ UNCHANGED ret
    /\ ReaderFrame

\* the membership test and the out- and in-edges of complex_id in cls.G
ReadGraph ==
    /\ reader.pc = "graph"
    /\ ret' = Call("lines_at_gtfs_stop_id", <<reader.gtfs_stop_id>>,
                   LinesAtResolved(G, reader.complex_id))
    /\ reader' = NoReader
    /\ ReaderFrame

NextThreads ==
    \/ \E b \in Builders : StartBuild(b)
    \/ \E b \in Builders : LoadComplexes(b)
    \/ \E b \in Builders : LoadTrips(b)
    \/ \E b \in Builders : LoadStopTimes(b)
    \/ \E b \in Builders : NewLocalGraph(b)
    \/ \E b \in Builders : Passes(b)
    \/ \E b \in Builders : Publish(b)
    \/ ReadAssertBuilt
    \/ ReadResolve
    \/ ReadGraph
    \/ Return

SpecThreads == InitThreads /\ [][NextThreads]_vars

-----------------------------------------------------------------------------
\* the snapshots a complete build of one source directory publishes: resolver and graph
LoadableSources == {s \in ThreadSources : s.missing = {}}
SnapshotResolver(s) == Val(ComplexesData(s))
SnapshotGraph(s) == Val(SubwayBuild(Val(s.trips), Val(s.stop_times), SnapshotResolver(s)))

\* a completed lines_at_gtfs_stop_id call returned what it returns before any build or
\* on the snapshot of one source directory
C12_ReadsOneSnapshot ==
    Called("lines_at_gtfs_stop_id") =>
        \/ ret.res = Raise("RuntimeError")
        \/ \E s \in LoadableSources :
              ret.res = lines_at_gtfs_stop_id(SnapshotGraph(s), SnapshotResolver(s),
                                              ret.args[1])

\* the published graph is the graph of one source directory
C12_PublishesOwnSources == Built => \E s \in LoadableSources : G = SnapshotGraph(s)

(* C12: with builds and queries running concurrently on SubwayGraph, every *)
(* query, lines_at_gtfs_stop_id included, returns the result it has on one *)
(* published snapshot (the one before or the one after the rebuild), never *)
(* on a mix of the new resolver with the old graph, and overlapping builds *)
(* each publish a graph computed from their own sources only.              *)
C12_AtomicSnapshot == IsSubway => C12_ReadsOneSnapshot /\ C12_PublishesOwnSources

-----------------------------------------------------------------------------
\* a build_graph call completes in this step and publishes its local graph
C13_Completes(b) ==
    /\ builders[b].pc = "publish"
    /\ builders'[b].pc = "idle"
    /\ G' = Val(builders[b].G)

\* a build_graph call is left by an exception of its loading statements in this step
C13_RaisesInLoad(b) ==
    /\ builders[b].pc \in {"complexes", "trips", "stop_times"}
    /\ builders'[b].pc = "failed"

\* the steps of the engine: cls.G changes only when a build completes, a raising load
\* leaves it alone, and it never goes back to None
C13_Step ==
    /\ G' # G => \E b \in Builders : C13_Completes(b)
    /\ (\E b \in Builders : C13_RaisesInLoad(b)) => G' = G
    /\ IsVal(G) => IsVal(G')

\* cls.G is None or a graph, and a build that has created its graph object and not yet
\* run its passes holds an empty graph, whatever is published
C13_State ==
    /\ IsNone(G) # IsVal(G)
    /\ \A b \in Builders :
          builders[b].pc = "passes" => builders[b].G = EmptyGraph(IsSubway)

(* C13: the engine is NotBuilt (G is None) or Built, never both; G changes *)
(* only when a build_graph call completes, so NotBuilt -> Built is the     *)
(* only transition; a build that raises while loading leaves G as it was;  *)
(* once Built the engine stays Built; and a later build works on a new,    *)
(* empty graph object and replaces the published one when it completes.    *)
C13_EngineStateMachine == [](C13_State) /\ [][C13_Step]_vars

C13_Witness ==
    /\ Built
    /\ G.v.nodes # <<>>
    /\ \E b \in Builders : builders[b].pc = "failed"
    /\ \E b \in Builders : builders[b].pc = "passes"

-----------------------------------------------------------------------------
\* cls.G as the last build_graph call found it
PublishedBefore == IF Len(history) = 1 THEN None ELSE Val(history[1])

\* the try block of the last build raised for (route, direction)
PassFailed(route, direction) ==
    LET stops == IF IsSubway THEN SubwayOrderedStops(trips, stop_times, route, direction)
                 ELSE ComplexOrderedStops(PublishedBefore, trips, stop_times, complexes,
                                          route, direction)
    IN  IsRaise(stops) \/ IsRaise(ResolveAll(complexes.v, stops.v))

\* the trips and stop_times tables without the trips of the failed pairs
KeptTrips == SelectSeq(trips.v, LAMBDA r : ~PassFailed(r.route_id, r.direction_id))
KeptStopTimes == {r \in stop_times.v : \E i \in 1..Len(KeptTrips) : KeptTrips[i].trip_id = r.trip_id}

\* the routes all of whose pairs failed
FailedRoutes == {r \in RoutesOfTable : PassFailed(r, 0) /\ PassFailed(r, 1)}

\* two graphs with the same nodes, node attributes, edges and line lists
SameGraph(g, h) ==
    /\ NodeSet(g) = NodeSet(h)
    /\ g.attrs = h.attrs
    /\ SeqToSet(g.edges) = SeqToSet(h.edges)
    /\ g.lines = h.lines

(* C14: when sequencing or resolving fails for some (route, direction)     *)
(* pairs, build_graph still completes and the engine is Built, a route all *)
(* of whose pairs failed labels no edge, and the published graph has the   *)
(* nodes, attributes, edges and line lists of the graph built from the     *)
(* same sources without the trips of the failed pairs.  (Stated of the     *)
(* states between calls: a query does not assign G or the caches.)         *)
C14_FailureContained ==
    (history # <<>> /\ ret = Idle) =>
        /\ Built
        /\ \A e \in EdgeSet(G.v) : SeqToSet(G.v.lines[e]) \cap FailedRoutes = {}
        /\ SameGraph(G.v,
                     IF IsSubway
                     THEN SubwayBuild(Val(KeptTrips), Val(KeptStopTimes), complexes)
                     ELSE ComplexBuild(PublishedBefore, Val(KeptTrips), Val(KeptStopTimes),
                                       complexes))

\* a pair fails in the resolver (a stop with an empty id) next to pairs that succeed
C14_Witness ==
    /\ history # <<>>
    /\ Built
    /\ G.v.edges # <<>>
    /\ \E i \in 1..Len(trips.v) :
          /\ PassFailed(trips.v[i].route_id, trips.v[i].direction_id)
          /\ InSeq(<<>>, TripStops(trips.v[i].trip_id))

-----------------------------------------------------------------------------
\* the lines of a text: the pieces between its newlines
RECURSIVE SplitLines(_)
SplitLines(text) ==
    LET breaks == {i \in 1..Len(text) : text[i] = "\n"}
    IN  IF breaks = {} THEN <<text>>
        ELSE LET first == CHOOSE i \in breaks : \A j \in breaks : i <= j
             IN  <<SubSeq(text, 1, first - 1)>> \o SplitLines(SubSeq(text, first + 1, Len(text)))

\* the lines of a list, each followed by ", " except the last
C15_Listed(lines) ==
    [i \in 1..(2 * Len(lines) - 1) |-> IF i % 2 = 1 THEN lines[(i + 1) \div 2] ELSE ", "]

\* "{name(p)} ({p})"
C15_Station(g, p) == <<g.attrs[p].stop_name, " (">> \o p \o <<")">>

\* the line of the directions for position i of the path p (positions from 1)
C15_Line(g, p, i) ==
    IF i = 1 THEN <<"Start at ">> \o C15_Station(g, p[1])
    ELSE LET lines == IF <<p[i - 1], p[i]>> \in EdgeSet(g)
                      THEN g.lines[<<p[i - 1], p[i]>>] ELSE <<>>
         IN  IF lines # <<>>
             THEN <<"Take the ">> \o C15_Listed(lines) \o <<" trains to ">>
                      \o C15_Station(g, p[i])
             ELSE <<"Transfer at ">> \o C15_Station(g, p[i])

\* the text is the directions along the path p
C15_Describes(g, text, p) ==
    /\ Len(SplitLines(text)) = Len(p)
    /\ \A i \in 1..Len(p) : SplitLines(text)[i] = C15_Line(g, p, i)

-----------------------------------------------------------------------------
\* the query operations
C16_Queries ==
    {"successors", "connecting_lines", "lines_at_complex_id", "lines_at_gtfs_stop_id",
     "shortest_path", "all_shortest_paths", "shortest_path_with_lines", "get_directions",
     "get_all_directions", "stop_name_to_complex_id", "complex_id_to_name"}

(* C16: on a built graph, every query operation, with known or unknown     *)
(* arguments and whether it returns a value or raises, leaves the nodes,   *)
(* the node attributes, the edges, every edge's line list, the resolver    *)
(* and source tables and the Built state as they were.                     *)
C16_QueriesArePureReads ==
    [][(Built /\ ret = Idle /\ ret' # Idle /\ ret'.op \in C16_Queries)
          => /\ G' = G
             /\ complexes' = complexes
             /\ trips' = trips
             /\ stop_times' = stop_times]_vars

\* a query that failed on an unknown id, on a graph with edges
C16_Witness ==
    /\ Built
    /\ G.v.edges # <<>>
    /\ Called("successors")
    /\ IsRaise(ret.res)
    /\ ~HasNode(G.v, ret.args[1])

-----------------------------------------------------------------------------
\* the complex sequence from which the last build emitted nodes and edges for
\* (route, direction); empty when the pass failed
EmittedSequence(route, direction) ==
    IF PassFailed(route, direction) THEN <<>>
    ELSE LET stops == IF IsSubway
                      THEN SubwayOrderedStops(trips, stop_times, route, direction)
                      ELSE ComplexOrderedStops(PublishedBefore, trips, stop_times, complexes,
                                               route, direction)
         IN  ResolveAll(complexes.v, stops.v).v

(* C17: in the complex sequence from which a build emits the nodes and     *)
(* edges of a (route, direction), no two consecutive entries are the same  *)
(* complex, and no published graph, directed or undirected, has an edge    *)
(* from a complex to itself.                                               *)
C17_NoSelfLoops ==
    (history # <<>> /\ ret = Idle) =>
        /\ \A route \in RoutesOfTable, direction \in {0, 1} :
              LET ids == EmittedSequence(route, direction)
              IN  \A i \in 1..(Len(ids) - 1) : ids[i] # ids[i + 1]
        /\ \A e \in EdgeSet(G.v) : e[1] # e[2]

-----------------------------------------------------------------------------
(* C18: on a built graph, ordered_stops(route, direction) returns the      *)
(* empty sequence, and does not raise, whenever the trips table holds no   *)
(* trip of that route and direction, for a route under the first-trip      *)
(* policy as for a route under the maximum-stop-count override.            *)
C18_NoTripGivesEmpty ==
    (/\ Built
     /\ Called("ordered_stops")
     /\ TripsQuery(trips.v, ret.args[1], ret.args[2]) = <<>>)
        => ret.res = Val(<<>>)

-----------------------------------------------------------------------------
\* the last build emitted the edge (a, b) for the route: a before b in the sequence of
\* one of its directions (directed build), a next to b (undirected build)
Emits(route, a, b) ==
    \E direction \in {0, 1} :
        LET ids == EmittedSequence(route, direction)
        IN  IF IsSubway
            THEN \E i, j \in 1..Len(ids) : i < j /\ ids[i] = a /\ ids[j] = b
            ELSE \E i \in 1..(Len(ids) - 1) : {<<ids[i], ids[i + 1]>>, <<ids[i + 1], ids[i]>>}
                                                  \cap {<<a, b>>} # {}

StrictlyAscending(s) == \A i \in 1..(Len(s) - 1) : CodePoint(s[i]) < CodePoint(s[i + 1])

(* C19: in every published graph, each edge's line list is in strictly     *)
(* ascending order (sorted, no route twice) and holds exactly the routes   *)
(* that emitted the edge in some (route, direction) pass of the build: a   *)
(* later route or the opposite direction never overwrites or drops a route.*)
C19_LineListsSortedUnion ==
    (history # <<>> /\ ret = Idle) =>
        \A e \in EdgeSet(G.v) :
            /\ StrictlyAscending(G.v.lines[e])
            /\ SeqToSet(G.v.lines[e]) = {r \in RoutesOfTable : Emits(r, e[1], e[2])}

\* an edge that two routes emitted, the later one sorting first
C19_Witness ==
    /\ history # <<>>
    /\ ret = Idle
    /\ RouteIds(trips.v) = <<"B", "A">>
    /\ \E e \in EdgeSet(G.v) : G.v.lines[e] = <<"A", "B">>

-----------------------------------------------------------------------------
\* every stop id of the registry is listed in one row only
ListedOnce == \A id \in RegistryEntries : Cardinality(RowsListing(id)) <= 1

(* C20: in a registry that lists each raw stop id under exactly one        *)
(* complex, every member m of get_gtfs_stop_ids_by_complex_id(c) resolves  *)
(* to c, whatever the row order and whether or not a directional variant   *)
(* of m is listed under another complex.                                   *)
C20_ExactMatchFirst ==
    ListedOnce =>
        \A i \in 1..Len(files.registry) :
            LET c == files.registry[i].complex_id
                members == get_gtfs_stop_ids_by_complex_id(complexes.v, c).v
            IN  \A k \in 1..Len(members) :
                    /\ get_complex_id_by_gtfs_stop_id(complexes.v, members[k]) = Val(c)
                    /\ (Called("get_complex_id_by_gtfs_stop_id") /\ ret.args[1] = members[k])
                          => ret.res = Val(c)

-----------------------------------------------------------------------------
\* the number of stop_times rows of a trip
StopCount(trip_id) == Cardinality({r \in stop_times.v : r.trip_id = trip_id})

\* the trips ordered_stops may select for (route, direction) under the policy of the
\* route: a trip with the most stops for an override route, else the first trip in the file
SelectableTrips(route, direction) ==
    LET q == TripsQuery(trips.v, route, direction)
        ids == {q[i].trip_id : i \in 1..Len(q)}
    IN  IF route \in OverrideRoutes
        THEN {id \in ids : \A o \in ids : StopCount(o) <= StopCount(id)}
        ELSE {q[1].trip_id}

\* what ordered_stops returns when it selects the trip: its stops by stop_sequence, and
\* in the undirected mode their complexes, each once
SequenceOf(trip_id) ==
    IF IsSubway THEN Val(TripStops(trip_id))
    ELSE IF IsRaise(TripComplexes(trip_id)) THEN TripComplexes(trip_id)
    ELSE Val(DropRepeats(TripComplexes(trip_id).v, {}))

(* C21: on a built graph, ordered_stops(route, direction) for a route of   *)
(* the override set ("A", "4") returns the sequence, by stop_sequence, of  *)
(* a trip whose stop count is maximal among the trips of that route and    *)
(* direction, and for every other route that of the first such trip in     *)
(* file order; the selection is the same in both build modes.              *)
C21_TripSelection ==
    (/\ Built
     /\ Called("ordered_stops")
     /\ TripsQuery(trips.v, ret.args[1], ret.args[2]) # <<>>)
        => \E id \in SelectableTrips(ret.args[1], ret.args[2]) : ret.res = SequenceOf(id)

-----------------------------------------------------------------------------
\* the stop names of stops.txt, and the name of a complex none of whose stops has one
StationNames == {files.stops[id] : id \in DOMAIN files.stops} \cup {"Unknown"}

\* every edge has a line and joins two nodes
C22_EdgesWellFormed(g) ==
    \A e \in EdgeSet(g) :
        /\ g.lines[e] # <<>>
        /\ e[1] \in NodeSet(g)
        /\ e[2] \in NodeSet(g)

\* every node is a complex of the registry and carries its name and its stop ids
C22_NodesWellFormed(g) ==
    \A n \in NodeSet(g) :
        /\ n \in RegistryComplexIds
        /\ n \in DOMAIN g.attrs
        /\ g.attrs[n].stop_name \in StationNames
        /\ IsVal(g.attrs[n].gtfs_ids)
        /\ g.attrs[n].gtfs_ids = get_gtfs_stop_ids_by_complex_id(complexes.v, n)

(* C22: in every published graph each edge carries a non-empty line list   *)
(* and joins two nodes, and each node is a complex id of the registry and  *)
(* carries a stop_name and a gtfs_ids attribute; so get_directions never   *)
(* emits a "Transfer at" line and stop_name_to_complex_id never raises on  *)
(* a built graph.                                                          *)
C22_GraphWellFormed ==
    Built =>
        /\ C22_EdgesWellFormed(G.v)
        /\ C22_NodesWellFormed(G.v)
        /\ (Called("get_directions") /\ IsVal(ret.res))
              => \A i \in 1..Len(ret.res.v) : ret.res.v[i] # "Transfer at "
        /\ Called("stop_name_to_complex_id") => ~IsRaise(ret.res)

\* a name lookup answered on a graph that has a complex without a named stop
C22_Witness ==
    /\ Built
    /\ G.v.edges # <<>>
    /\ \E n \in NodeSet(G.v) : G.v.attrs[n].stop_name = "Unknown"
    /\ Called("stop_name_to_complex_id")
    /\ ret.args[1] = "Unknown"
    /\ IsVal(ret.res)

=============================================================================
